---------------------------- MODULE Spec2Model ----------------------------
(***************************************************************************)
(* A model of the static site generator in src/src/main.rs.                *)
(*                                                                         *)
(* Text is modelled as a sequence of one-character strings, so that the    *)
(* byte offsets the front-matter splitter computes (starts_with, find, the *)
(* two slices) are the offsets of the code.  File names are sequences of   *)
(* their dot-separated parts and paths are sequences of file names, so     *)
(* that extension(), with_extension(), strip_prefix() and join() are       *)
(* computed the way std::path computes them.                               *)
(*                                                                         *)
(* SpecParse applies parse_markdown_file and the render-context lines of   *)
(* generate_site to every document over a small set of lines.              *)
(* Spec runs main / generate_site over a small source tree.                *)
(***************************************************************************)
EXTENDS Integers, Sequences, FiniteSets, TLC

\* ------------------------------------------------------------------ bounds

\* Lines per document in SpecParse.
MaxLines == 5

\* Entries of the source tree in Spec.
MaxDocs == 2

\* ------------------------------------------------------------------- text

\* Option::None of str::find (line 33); offsets are 0 or more.
NotFound == -1

\* Option<PageMetadata>::None (line 28).
NoMetadata == [some |-> FALSE]

Dash3 == <<"-", "-", "-">>
NL == <<"\n">>

\* "---\n": the opening delimiter tested at line 32.
OpenDelim == Dash3 \o NL

\* "\n---\n": the closing delimiter searched for at line 33.
CloseDelim == NL \o Dash3 \o NL

TitleKey == <<"t", "i", "t", "l", "e">>
DescKey == <<"d", "e", "s", "c", "r", "i", "p", "t", "i", "o", "n">>
KeySep == <<":", " ">>

TitleA == TitleKey \o KeySep \o <<"A">>
TitleB == TitleKey \o KeySep \o <<"B">>
DescD == DescKey \o KeySep \o <<"D">>
Hello == <<"H", "i">>

\* The lines documents are made of.
LineSet == {Dash3, TitleA, TitleB, DescD, Hello}

\* The placeholder of line 115 and the default of line 116.
Untitled == <<"U", "n", "t", "i", "t", "l", "e", "d">>
EmptyStr == <<>>

RECURSIVE Join(_)
\* The lines joined by "\n" (no terminator after the last line).
Join(ls) ==
    IF ls = <<>> THEN <<>>
    ELSE IF Len(ls) = 1 THEN ls[1]
    ELSE ls[1] \o NL \o Join(Tail(ls))

\* Every text of at most MaxLines lines of LineSet, the last line with or
\* without its terminator.
Docs ==
    UNION {{Join(ls) : ls \in [1..k -> LineSet]} \cup
           {Join(ls) \o NL : ls \in [1..k -> LineSet]} : k \in 0..MaxLines}

\* str::starts_with
StartsWith(s, p) == Len(s) >= Len(p) /\ SubSeq(s, 1, Len(p)) = p

RECURSIVE FindFrom(_, _, _)
\* The first offset of p in s at or after i, or NotFound.
FindFrom(s, p, i) ==
    IF i + Len(p) > Len(s) THEN NotFound
    ELSE IF SubSeq(s, i + 1, i + Len(p)) = p THEN i
    ELSE FindFrom(s, p, i + 1)

\* str::find: the first offset of p in s, or NotFound.
Find(s, p) == FindFrom(s, p, 0)

\* &s[a..b] panics unless a <= b <= len.
SliceOk(s, a, b) == a <= b /\ b <= Len(s)

\* &s[a..b], for offsets that pass SliceOk.
Slice(s, a, b) == SubSeq(s, a + 1, b)

RECURSIVE SplitLines(_)
\* The text split at each "\n"; a text ending in "\n" has no empty last line.
SplitLines(s) ==
    IF s = <<>> THEN <<>>
    ELSE LET nl == Find(s, NL) IN
         IF nl = NotFound THEN <<s>>
         ELSE <<Slice(s, 0, nl)>> \o SplitLines(Slice(s, nl + 1, Len(s)))

\* ------------------------------------------------------------- serde_yaml

\* One line of a block mapping: its key and value, split at the first ": ".
YamlEntry(line) ==
    LET sep == Find(line, KeySep) IN
    IF sep = NotFound THEN [entry |-> FALSE]
    ELSE [entry |-> TRUE, key |-> Slice(line, 0, sep),
          value |-> Slice(line, sep + 2, Len(line))]

\* The values the lines give to a key, in order.
YamlValues(lines, key) ==
    SelectSeq(lines, LAMBDA l : YamlEntry(l).entry /\ YamlEntry(l).key = key)

\* serde_yaml::from_str::<PageMetadata>: a mapping with exactly one title (a
\* required field), at most one description (#[serde(default)]); anything
\* else (an empty document, a line that is no entry, a field given twice, no
\* title) is an error, returned here as [some |-> FALSE].
YamlParse(yaml) ==
    LET lines == SplitLines(yaml)
        titles == YamlValues(lines, TitleKey)
        descs == YamlValues(lines, DescKey)
    IN  IF lines = <<>> THEN NoMetadata
        ELSE IF \E i \in 1..Len(lines) : ~YamlEntry(lines[i]).entry THEN NoMetadata
        ELSE IF Len(titles) # 1 \/ Len(descs) > 1 THEN NoMetadata
        ELSE [some |-> TRUE, title |-> YamlEntry(titles[1]).value,
              description |-> IF descs = <<>> THEN EmptyStr
                              ELSE YamlEntry(descs[1]).value]

\* pulldown_cmark's push_html, left uninterpreted: the fragment of a body.
RenderMarkdown(markdown) == [html_of |-> markdown]

\* ------------------------------------------------------ parse_markdown_file

ParseOk(metadata, markdown) ==
    [kind |-> "ok", metadata |-> metadata, markdown |-> markdown,
     html_content |-> RenderMarkdown(markdown)]

ParseErr(cause) == [kind |-> "err", cause |-> cause]

\* A slice out of bounds: the thread panics and the process aborts.
Panic == [kind |-> "panic"]

\* The offset line 33 finds, or NotFound.
CloseOffset(content) == Find(content, CloseDelim)

\* Lines 32-42 and 44-50, on the text read at line 27.
SplitFrontMatter(content) ==
    IF StartsWith(content, OpenDelim) THEN
        LET end == CloseOffset(content) IN
        IF end # NotFound THEN
            IF ~SliceOk(content, 4, end) THEN Panic
            ELSE LET parsed == YamlParse(Slice(content, 4, end)) IN
                 IF ~parsed.some THEN ParseErr("yaml")
                 ELSE IF ~SliceOk(content, end + 5, Len(content)) THEN Panic
                 ELSE ParseOk(parsed, Slice(content, end + 5, Len(content)))
        ELSE ParseOk(NoMetadata, content)
    ELSE ParseOk(NoMetadata, content)

\* parse_markdown_file: readable is whether fs::read_to_string succeeds.
parse_markdown_file(readable, content) ==
    IF ~readable THEN ParseErr("read") ELSE SplitFrontMatter(content)

\* ------------------------------------------------- the render context

\* A slip in line 115: the description taken for the title.
ContextTitle_description(metadata) ==
    IF metadata.some THEN metadata.description ELSE Untitled

\* Line 115: metadata.as_ref().map(|m| m.title.as_str()).unwrap_or("Untitled")
ContextTitle(metadata) == IF metadata.some THEN metadata.title ELSE Untitled

\* Line 116: metadata.as_ref().map(|m| m.description.as_str()).unwrap_or("")
ContextDescription(metadata) ==
    IF metadata.some THEN metadata.description ELSE EmptyStr

\* Option<String>::None of css_content (line 62).
NoCss == [some |-> FALSE]

\* The stylesheet of test_style.css, read at line 66.
SomeCss == [some |-> TRUE, text |-> <<"c", "s", "s">>]

\* Lines 113-120: the variables inserted into the Tera context; css only
\* when a stylesheet is configured.
RenderContext(parsed, css_content) ==
    [content |-> parsed.html_content,
     title |-> ContextTitle(parsed.metadata),
     description |-> ContextDescription(parsed.metadata),
     css |-> css_content]

\* No render context: the document was skipped before line 113.
NoContext == [built |-> FALSE]

BuiltContext(parsed, css_content) ==
    [built |-> TRUE, vars |-> RenderContext(parsed, css_content)]

\* ------------------------------------------------------------ std::path

\* A file name is the sequence of its dot-separated parts ("a.b.md" is
\* <<"a", "b", "md">>, ".md" is <<"", "md">>); a path is a sequence of names.

NoExtension == [some |-> FALSE]

\* Path::extension: the part after the last dot of the file name; none when
\* the name has no dot or only a leading one.
Extension(path) ==
    IF path = <<>> THEN NoExtension
    ELSE LET name == path[Len(path)] IN
         IF Len(name) = 1 \/ (Len(name) = 2 /\ name[1] = "") THEN NoExtension
         ELSE [some |-> TRUE, ext |-> name[Len(name)]]

\* A slip in with_extension: the name cut at its first dot, not its last.
WithExtension_first_dot(path, ext) ==
    SubSeq(path, 1, Len(path) - 1) \o <<(<<path[Len(path)][1], ext>>)>>

\* Path::with_extension: the file name's extension replaced by ext (added
\* when the name has none).
WithExtension(path, ext) ==
    LET name == path[Len(path)]
        stem == IF Extension(path).some THEN SubSeq(name, 1, Len(name) - 1)
                ELSE name
    IN  SubSeq(path, 1, Len(path) - 1) \o <<stem \o <<ext>>>>

NotUnderPrefix == [ok |-> FALSE]

\* Path::strip_prefix
StripPrefix(path, base) ==
    IF Len(path) >= Len(base) /\ SubSeq(path, 1, Len(base)) = base
    THEN [ok |-> TRUE, path |-> SubSeq(path, Len(base) + 1, Len(path))]
    ELSE NotUnderPrefix

\* Path::join with a relative path
JoinPath(base, rel) == base \o rel

\* config.source_dir and config.output_dir (lines 13-14).
SourceDir == <<(<<"src">>)>>
OutputDir == <<(<<"out">>)>>

\* Lines 90-92: the output path of a path relative to source_dir.
OutputPath(relative_path) ==
    WithExtension(JoinPath(OutputDir, relative_path), "html")

\* ------------------------------------------------------- the source tree

\* Paths a source tree may hold, relative to source_dir: Markdown documents
\* at depths 0 to 2, a name with two dots, and two files the walk filters
\* out (another extension, a hidden file named ".md").
MdCandidates ==
    { <<(<<"a", "md">>)>>,
      <<(<<"a", "b", "md">>)>>,
      <<(<<"d">>), (<<"a", "md">>)>>,
      <<(<<"d">>), (<<"e">>), (<<"a", "md">>)>> }

OtherCandidates == { <<(<<"a", "txt">>)>>, <<(<<"", "md">>)>> }

Candidates ==
    {JoinPath(SourceDir, r) : r \in MdCandidates \cup OtherCandidates}

\* The Markdown documents of a source tree: the document of the tests, a
\* block with a key given twice (test_malformed_yaml), and a block with
\* nothing between its delimiter lines.  (SpecParse covers every text.)
GoodDoc == Join(<<Dash3, TitleA, DescD, Dash3, Hello>>)
DupTitleDoc == Join(<<Dash3, TitleA, TitleB, Dash3, Hello>>)
EmptyBlockDoc == Join(<<Dash3, Dash3, Hello>>)

\* The text of the files that are no Markdown documents.
PlainDoc == Hello

SiteDocs == {GoodDoc, DupTitleDoc, EmptyBlockDoc}

\* Line 79: the filter of the walk.
IsMarkdown(path) == Extension(path) = [some |-> TRUE, ext |-> "md"]

\* Source trees of at most MaxDocs files.
Trees ==
    UNION {{t \in [S -> SiteDocs \cup {PlainDoc}] :
                \A q \in S : IF IsMarkdown(q) THEN t[q] \in SiteDocs
                              ELSE t[q] = PlainDoc} :
           S \in {S \in SUBSET Candidates : Cardinality(S) <= MaxDocs}}

RECURSIVE Ancestors(_)
\* The directories above a path, down to source_dir.
Ancestors(path) ==
    IF Len(path) <= Len(SourceDir) THEN {}
    ELSE LET parent == SubSeq(path, 1, Len(path) - 1) IN
         {parent} \cup Ancestors(parent)

\* WalkDir::new(source_dir): the root, every directory and every file.
WalkEntries(t) ==
    {SourceDir} \cup DOMAIN t \cup UNION {Ancestors(q) : q \in DOMAIN t}

\* Lines 76-79: the entries the loop body runs for.
MarkdownEntries(t) == {q \in WalkEntries(t) : IsMarkdown(q)}

\* ---------------------------------------------------------------- Tera

\* tera.render("page", &context): a template that names css outside an
\* {% if css %} block fails to render when the context has no css.
RenderFails(template, context) ==
    template = "unguarded" /\ ~context.vars.css.some

\* The page Tera renders from a context, left uninterpreted.
RenderTemplate(context) == [kind |-> "page", page_of |-> context.vars]

\* ------------------------------------------------------ files of the run

\* A file left over from an earlier run.
OldFile == [kind |-> "old"]

\* A file File::create truncated and write_all did not complete.
PartialFile == [kind |-> "partial"]

\* The page an earlier run left in output_dir: out/a.html, so that the
\* run overwrites a file for src/a.md and creates one for any other entry.
StalePaths == {OutputPath(<<(<<"a", "md">>)>>)}

Running == [kind |-> "running"]
Success == [kind |-> "ok"]
Failure(cause) == [kind |-> "err", cause |-> cause]
Aborted == [kind |-> "panic"]

\* A slip in lines 138-141: the write error returned with ? instead of
\* being logged.
AfterEntry_propagate(stage) ==
    IF stage = "aborted-at-parse" THEN Aborted
    ELSE IF stage = "failed-at-write" THEN Failure("write")
    ELSE Running

\* Lines 85-88, 97-100, 106-109, 123-126, 133-136, 139-141: a failed step
\* is logged and the loop continues; only a panic ends the run.
AfterEntry(stage) ==
    IF stage = "aborted-at-parse" THEN Aborted ELSE Running

\* A slip in lines 148-150: the copy error returned with ?.
CopyCssResult_propagate(attempted, copied) ==
    IF attempted /\ ~copied THEN Failure("css_copy") ELSE Success

\* Lines 145-153: the copy is attempted when css_file is set, its error is
\* logged, and generate_site returns Ok(()).
CopyCssResult(attempted, copied) == Success

\* The state of an entry the loop has not reached.
Discovered ==
    [stage |-> "discovered", output_path |-> <<>>, context |-> NoContext,
     parse_error |-> "none"]

\* Line 78 and the loop body (lines 81-141) for one entry: the stage it
\* ends in, the output path it computed, its render context, the error of
\* parse_markdown_file and its output file.  fault is the file operation
\* the environment fails, if any: the walk's own read of the entry (the
\* entry is then dropped by filter_map and the loop body never runs),
\* create_dir_all, read_to_string, File::create or write_all.
EntryOutcome(path, text, fault, template, css_content, before) ==
    LET stripped == StripPrefix(path, SourceDir)
        output_path == OutputPath(stripped.path)
        parsed == parse_markdown_file(fault # "read", text)
        context == BuiltContext(parsed, css_content)
        at(stage, ctx, file) ==
            [stage |-> stage, output_path |-> output_path, context |-> ctx,
             parse_error |-> IF stage = "failed-at-parse" THEN parsed.cause ELSE "none",
             file |-> file]
        skipped(stage) ==
            [stage |-> stage, output_path |-> <<>>, context |-> NoContext,
             parse_error |-> "none", file |-> before]
    IN  IF fault = "walk" THEN skipped("dropped-by-walk")
        ELSE IF ~stripped.ok THEN skipped("failed-at-strip")
        ELSE IF fault = "mkdir" THEN at("failed-at-mkdir", NoContext, before)
        ELSE IF parsed.kind = "panic" THEN at("aborted-at-parse", NoContext, before)
        ELSE IF parsed.kind = "err" THEN at("failed-at-parse", NoContext, before)
        ELSE IF RenderFails(template, context) THEN at("failed-at-render", context, before)
        ELSE IF fault = "create" THEN at("failed-at-create", context, before)
        ELSE IF fault = "write" THEN at("failed-at-write", context, PartialFile)
        ELSE at("written", context, RenderTemplate(context))

Faults == {"none", "walk", "mkdir", "read", "create", "write"}

\* No file at the path.
Absent == [kind |-> "absent"]

\* The file at a path of the output directory.
FileAt(files, path) == IF path \in DOMAIN files THEN files[path] ELSE Absent

\* ---------------------------------------------------------------- state

VARIABLES
    content,    \* SpecParse: the text of the document on disk
    presult,    \* SpecParse: what parse_markdown_file returned
    pctx,       \* SpecParse: the render context built from presult
    ppc,        \* SpecParse: "parse", "context", "rendered", "skipped", "aborted"
    env,        \* Spec: the files the run is given (config.toml, template, css)
    tree,       \* Spec: the files under source_dir, path -> text
    pc,         \* Spec: the line main / generate_site is at
    css_content,\* Spec: the stylesheet read at lines 62-68
    doc,        \* Spec: per Markdown entry, how far the loop body got
    out,        \* Spec: the files under output_dir, path -> file
    css_copy,   \* Spec: "not_attempted", "copied" or "failed" (line 148)
    result      \* Spec: what main returned, or Running

pvars == <<content, presult, pctx, ppc>>
svars == <<env, tree, pc, css_content, doc, out, css_copy, result>>
vars == <<content, presult, pctx, ppc, env, tree, pc, css_content, doc, out,
          css_copy, result>>

NotParsed == [kind |-> "none"]

\* The variables of SpecParse while Spec runs.
ParseIdle ==
    /\ content = <<>>
    /\ presult = NotParsed
    /\ pctx = NoContext
    /\ ppc = "idle"

\* The variables of Spec while SpecParse runs.
SiteIdle ==
    /\ env = [config |-> "ok", template |-> "guarded", css_file |-> "none"]
    /\ tree = <<>>
    /\ pc = "idle"
    /\ css_content = NoCss
    /\ doc = <<>>
    /\ out = <<>>
    /\ css_copy = "not_attempted"
    /\ result = Running

\* ------------------------------------------- SpecParse: one document

InitParse ==
    /\ content \in Docs
    /\ presult = NotParsed
    /\ pctx = NoContext
    /\ ppc = "parse"
    /\ SiteIdle

\* Line 104: parse_markdown_file(input_path), and the match on its result
\* (lines 105-110): an error skips the document, a panic aborts the process.
ParseDocument ==
    /\ ppc = "parse"
    /\ \E readable \in BOOLEAN :
          presult' = parse_markdown_file(readable, content)
    /\ ppc' = CASE presult'.kind = "ok" -> "context"
               [] presult'.kind = "err" -> "skipped"
               [] OTHER -> "aborted"
    /\ UNCHANGED <<content, pctx>>
    /\ UNCHANGED svars

\* Lines 113-120 for a parsed document, with or without a stylesheet.
BuildContext ==
    /\ ppc = "context"
    /\ \E css \in {NoCss, SomeCss} :
          pctx' = BuiltContext(presult, css)
    /\ ppc' = "rendered"
    /\ UNCHANGED <<content, presult>>
    /\ UNCHANGED svars

NextParse == ParseDocument \/ BuildContext

SpecParse == InitParse /\ [][NextParse]_vars

\* --------------------------------------------- Spec: main / generate_site

\* config.toml is unreadable, unparsable or ok; the template file is
\* unreadable, no valid template, or a template that names css inside or
\* outside an {% if css %} block; css_file is not set, or names a file that
\* is readable or not.  output_dir holds one page of an earlier run.
Init ==
    /\ env \in [config : {"unreadable", "unparsable", "ok"},
                template : {"unreadable", "invalid", "guarded", "unguarded"},
                css_file : {"none", "readable", "unreadable"}]
    /\ tree \in Trees
    /\ pc = "load_config"
    /\ css_content = NoCss
    /\ doc = [q \in MarkdownEntries(tree) |-> Discovered]
    /\ out = [q \in StalePaths |-> OldFile]
    /\ css_copy = "not_attempted"
    /\ result = Running
    /\ ParseIdle

\* A ? of main or generate_site returns the error.
Fail(cause) ==
    /\ result' = Failure(cause)
    /\ pc' = "done"

\* Lines 157-158: read and parse config.toml.
LoadConfig ==
    /\ pc = "load_config"
    /\ CASE env.config = "unreadable" -> Fail("config_read")
         [] env.config = "unparsable" -> Fail("config_parse")
         [] OTHER -> pc' = "read_template" /\ UNCHANGED result
    /\ UNCHANGED <<env, tree, css_content, doc, out, css_copy>>
    /\ UNCHANGED pvars

\* Lines 55-59: read the template file and add it to Tera.
LoadTemplate ==
    /\ pc = "read_template"
    /\ CASE env.template = "unreadable" -> Fail("template_read")
         [] env.template = "invalid" -> Fail("template_parse")
         [] OTHER -> pc' = "read_css" /\ UNCHANGED result
    /\ UNCHANGED <<env, tree, css_content, doc, out, css_copy>>
    /\ UNCHANGED pvars

\* Lines 62-68: read the stylesheet when css_file is set.
ReadCss ==
    /\ pc = "read_css"
    /\ CASE env.css_file = "unreadable" ->
              Fail("css_read") /\ UNCHANGED css_content
         [] env.css_file = "readable" ->
              css_content' = SomeCss /\ pc' = "create_output_dir" /\ UNCHANGED result
         [] OTHER ->
              css_content' = NoCss /\ pc' = "create_output_dir" /\ UNCHANGED result
    /\ UNCHANGED <<env, tree, doc, out, css_copy>>
    /\ UNCHANGED pvars

\* Lines 71-73: create output_dir; the environment may refuse.
CreateOutputDir ==
    /\ pc = "create_output_dir"
    /\ \E created \in BOOLEAN :
          IF created THEN pc' = "walk" /\ UNCHANGED result
          ELSE Fail("output_dir")
    /\ UNCHANGED <<env, tree, css_content, doc, out, css_copy>>
    /\ UNCHANGED pvars

\* Lines 76-142: the loop body for the next entry of the walk (in any
\* order), with the file operation the environment fails, if any.
ProcessEntry ==
    /\ pc = "walk"
    /\ \E q \in DOMAIN doc : \E fault \in Faults :
          /\ doc[q].stage = "discovered"
          /\ \E o \in {EntryOutcome(q, tree[q], fault, env.template, css_content,
                                      FileAt(out, OutputPath(StripPrefix(q, SourceDir).path)))} :
                 /\ doc' = [doc EXCEPT ![q] =
                              [stage |-> o.stage, output_path |-> o.output_path,
                               context |-> o.context, parse_error |-> o.parse_error]]
                 /\ out' = IF o.file = Absent THEN out
                           ELSE [f \in DOMAIN out \cup {o.output_path} |->
                                    IF f = o.output_path THEN o.file ELSE out[f]]
                 /\ result' = AfterEntry(o.stage)
                 /\ pc' = IF result'.kind = "running" THEN "walk" ELSE "done"
    /\ UNCHANGED <<env, tree, css_content, css_copy>>
    /\ UNCHANGED pvars

\* Lines 144-153 and 159-161: after the last entry, copy the stylesheet when
\* css_file is set (the environment may fail the copy), return Ok(()) and
\* print the confirmation line.
CopyCss ==
    /\ pc = "walk"
    /\ \A q \in DOMAIN doc : doc[q].stage # "discovered"
    /\ \E copied \in BOOLEAN :
          /\ css_copy' = IF env.css_file = "none" THEN "not_attempted"
                         ELSE IF copied THEN "copied" ELSE "failed"
          /\ result' = CopyCssResult(env.css_file # "none", copied)
    /\ pc' = "done"
    /\ UNCHANGED <<env, tree, css_content, doc, out>>
    /\ UNCHANGED pvars

Next == LoadConfig \/ LoadTemplate \/ ReadCss \/ CreateOutputDir
            \/ ProcessEntry \/ CopyCss

Spec == Init /\ [][Next]_vars

\* ------------------------------------------ claims about one document

\* The document was read: parse_markdown_file got past line 27.
WasRead ==
    /\ presult.kind # "none"
    /\ ~(presult.kind = "err" /\ presult.cause = "read")

\* The text begins with a line that is exactly --- and a later line is
\* exactly --- (a last line counts with or without its terminator).
HasDelimitedBlock(c) ==
    LET ls == SplitLines(c) IN
    /\ Len(ls) >= 2
    /\ ls[1] = Dash3
    /\ \E j \in 2..Len(ls) : ls[j] = Dash3

\* The lines between the opening delimiter line and the first later ---
\* line of a text with a delimited block.
BlockLines(c) ==
    LET ls == SplitLines(c)
        j == CHOOSE k \in 2..Len(ls) :
                 ls[k] = Dash3 /\ \A m \in 2..(k - 1) : ls[m] # Dash3
    IN  SubSeq(ls, 2, j - 1)

\* parse_markdown_file treated the text as having a metadata block: it
\* returned metadata, or failed on the block's content.
TreatedAsBlock ==
    \/ presult.kind = "ok" /\ presult.metadata.some
    \/ presult.kind = "err" /\ presult.cause = "yaml"

\* C8 (as claimed): a document is treated as having a metadata block if and
\* only if its text begins with a line that is exactly --- and some later
\* line is exactly ---; in every other case the whole text is the Markdown
\* body, metadata is none and no error is returned.
C8_FrontMatterDetection ==
    WasRead =>
        /\ TreatedAsBlock <=> HasDelimitedBlock(content)
        /\ ~HasDelimitedBlock(content) => presult = ParseOk(NoMetadata, content)

\* C10 (as claimed): parse_markdown_file returns a value or an error for
\* every text, and whenever a closing delimiter is found at offset end,
\* 4 <= end and end + 5 <= the length of the text.
C10_SplitterTotal ==
    WasRead =>
        /\ presult.kind \in {"ok", "err"}
        /\ (StartsWith(content, OpenDelim) /\ CloseOffset(content) # NotFound) =>
               /\ 4 <= CloseOffset(content)
               /\ CloseOffset(content) + 5 <= Len(content)

\* The four lines of a well-formed block with title t and description d.
WellFormedHead(t, d) ==
    Join(<<Dash3, TitleKey \o KeySep \o t, DescKey \o KeySep \o d, Dash3>>)

\* text is head, its closing delimiter line unterminated or terminated and
\* followed by a body.
HasHead(text, head) ==
    /\ StartsWith(text, head)
    /\ Len(text) > Len(head) => text[Len(head) + 1] = "\n"

\* The text strictly after the closing delimiter line of head.
TextAfterHead(text, head) ==
    IF Len(text) = Len(head) THEN EmptyStr
    ELSE SubSeq(text, Len(head) + 2, Len(text))

\* C3 (as claimed): for a document with a well-formed metadata block with
\* title T and description D, parsing yields metadata {title: T,
\* description: D} and the body handed to the renderer is exactly the text
\* strictly after the closing delimiter line.
C3_FrontMatterRoundTrip ==
    \A t \in {<<"A">>, <<"B">>} :
        (WasRead /\ HasHead(content, WellFormedHead(t, <<"D">>))) =>
            presult = ParseOk([some |-> TRUE, title |-> t, description |-> <<"D">>],
                              TextAfterHead(content, WellFormedHead(t, <<"D">>)))

\* The block parse_markdown_file slices out at line 34 has no title line.
DetectedBlockLacksTitle ==
    /\ StartsWith(content, OpenDelim)
    /\ CloseOffset(content) # NotFound
    /\ HasDelimitedBlock(content)
    /\ \A i \in 1..Len(BlockLines(content)) :
           ~StartsWith(BlockLines(content)[i], TitleKey \o KeySep)

\* The block is a mapping that gives a description and nothing else.
BlockIsDescriptionOnly ==
    /\ DetectedBlockLacksTitle
    /\ BlockLines(content) = <<DescD>>

\* C5 (as claimed): the title of the render context is the placeholder when
\* the metadata is absent or the metadata block lacks a title, and the
\* metadata title otherwise; the description is empty when the metadata is
\* absent or gives no description.  Here: once a readable document whose
\* block only lacks its title has gone through the loop body, it has a
\* render context whose title is the placeholder.
C5_TitleDefaultsAsClaimed ==
    (WasRead /\ ppc # "context" /\ BlockIsDescriptionOnly) =>
        /\ pctx.built
        /\ pctx.vars.title = Untitled
        /\ pctx.vars.description = <<"D">>

\* C5 (amended): the title of the render context is the placeholder when
\* parse_markdown_file returns no metadata and the title line of the block
\* otherwise; the description is empty when no metadata is returned or the
\* block has no description line, and the block's description otherwise; a
\* document whose detected block lacks a title fails to parse and gets no
\* render context at all.
C5_ContextDefaults ==
    /\ ppc = "rendered" =>
          /\ pctx.built
          /\ ~presult.metadata.some =>
                /\ pctx.vars.title = Untitled
                /\ pctx.vars.description = EmptyStr
          /\ presult.metadata.some =>
                LET block == BlockLines(content)
                    descs == SelectSeq(block, LAMBDA l : StartsWith(l, DescKey \o KeySep))
                IN  /\ \E i \in 1..Len(block) :
                          block[i] = TitleKey \o KeySep \o pctx.vars.title
                    /\ pctx.vars.title # Untitled
                    /\ IF descs = <<>> THEN pctx.vars.description = EmptyStr
                       ELSE descs = <<DescKey \o KeySep \o pctx.vars.description>>
    /\ ppc \in {"skipped", "aborted"} => ~pctx.built
    /\ (WasRead /\ DetectedBlockLacksTitle) =>
          /\ ppc \in {"skipped", "aborted"}
          /\ ~pctx.built

\* C5 witness: a document with an opening delimiter and no closing one was
\* rendered with the placeholder title and the empty description.
C5_Witness ==
    /\ ppc = "rendered"
    /\ StartsWith(content, OpenDelim)
    /\ ~presult.metadata.some
    /\ pctx.vars.title = Untitled
    /\ pctx.vars.description = EmptyStr

\* ------------------------------------------------- claims about the run

\* The walk has passed the entry: it was dropped or the loop body ended.
Passed(q) == doc[q].stage # "discovered"

\* The loop body has run for the entry.
Processed(q) == doc[q].stage \notin {"discovered", "dropped-by-walk"}

\* The metadata block of the text cannot be parsed as PageMetadata.
BadMetadata(text) ==
    /\ HasDelimitedBlock(text)
    /\ ~YamlParse(Join(BlockLines(text))).some

\* The file output_dir held at the path before the run.
InitialFile(path) == IF path \in StalePaths THEN OldFile ELSE Absent

\* The pages the run wrote.
PagesWritten == {f \in DOMAIN out : out[f].kind = "page"}

\* A step of the entry failed for a reason other than its metadata: a file
\* operation the environment failed, or the template.
FailedOutsideMetadata(q) ==
    \/ doc[q].stage \in {"dropped-by-walk", "failed-at-strip", "failed-at-mkdir",
                         "failed-at-render",
                         "failed-at-create", "failed-at-write"}
    \/ doc[q].stage = "failed-at-parse" /\ doc[q].parse_error = "read"

\* C1 (as claimed): when exactly one of the N documents has a metadata block
\* that cannot be parsed (and nothing else fails), the run processes every
\* other document, ends with exactly N-1 pages and returns success; no
\* document's content aborts the run.
C1_PartialFailureIsolation ==
    ( /\ pc = "done"
      /\ result.kind # "err"
      /\ Cardinality({q \in DOMAIN doc : BadMetadata(tree[q])}) = 1
      /\ \A q \in DOMAIN doc : ~FailedOutsideMetadata(q) ) =>
        /\ result = Success
        /\ \A q \in DOMAIN doc : ~BadMetadata(tree[q]) => doc[q].stage = "written"
        /\ Cardinality(PagesWritten) = Cardinality(DOMAIN doc) - 1

\* C2: the loop body runs only for paths under source_dir whose extension
\* is md, and the output path it computes for one, at every depth, is
\* output_dir, then the directories of the path below source_dir, then its
\* file name with the extension replaced by html; two documents never get
\* the same output path.
C2_PathMapping ==
    /\ \A q \in DOMAIN doc : Processed(q) =>
          LET rel == SubSeq(q, Len(SourceDir) + 1, Len(q))
              name == rel[Len(rel)]
          IN  /\ doc[q].stage # "failed-at-strip"
              /\ name[Len(name)] = "md"
              /\ doc[q].output_path =
                    OutputDir \o SubSeq(rel, 1, Len(rel) - 1)
                        \o <<SubSeq(name, 1, Len(name) - 1) \o <<"html">>>>
    /\ \A q1, q2 \in DOMAIN doc :
          (Processed(q1) /\ Processed(q2) /\ q1 # q2) =>
              doc[q1].output_path # doc[q2].output_path

\* C2 witness: a document two directories below source_dir and another
\* document were both written.
C2_Witness ==
    \E q1, q2 \in DOMAIN doc :
        /\ q1 # q2
        /\ Len(q1) = Len(SourceDir) + 3
        /\ doc[q1].stage = "written"
        /\ doc[q2].stage = "written"
        /\ out[doc[q1].output_path].kind = "page"

\* C4 (as claimed): whenever the metadata block of a document fails to parse
\* as PageMetadata, parse_markdown_file returns an error, the document is
\* not processed further (no render context, no write) and its output file
\* is neither created nor modified.
C4_MetadataFailureIsHard ==
    \A q \in DOMAIN doc :
        ( /\ BadMetadata(tree[q])
          /\ Processed(q)
          /\ doc[q].stage \notin {"failed-at-strip", "failed-at-mkdir"}
          /\ doc[q].parse_error # "read" ) =>
            /\ doc[q].stage = "failed-at-parse"
            /\ doc[q].parse_error = "yaml"
            /\ ~doc[q].context.built
            /\ FileAt(out, doc[q].output_path) = InitialFile(doc[q].output_path)

\* The errors main returns according to the claim (a template file that is
\* no valid template counted as unreadable).
ClaimedFatal ==
    {"config_read", "config_parse", "template_read", "template_parse", "output_dir"}

\* The errors main returns.
Fatal == ClaimedFatal \cup {"css_read"}

\* C6 (as claimed): the run ends in failure only when the configuration file
\* is unreadable or unparsable, the template file is unreadable or the
\* output root cannot be created; every other failed file operation, those
\* on the configured stylesheet included, leaves the result success.
C6_FatalSetAsClaimed ==
    result.kind = "err" => result.cause \in ClaimedFatal

\* C6 (amended): main returns an error only when the configuration file is
\* unreadable or unparsable, the template file is unreadable or no valid
\* template, the configured stylesheet is unreadable, or the output root
\* cannot be created, and it never returns success in the first five cases;
\* a failed step of a document and a failed copy of the stylesheet never
\* make it return an error.
C6_FatalSet ==
    /\ result.kind = "err" =>
          /\ result.cause \in Fatal
          /\ result.cause = "config_read" => env.config = "unreadable"
          /\ result.cause = "config_parse" => env.config = "unparsable"
          /\ result.cause = "template_read" => env.template = "unreadable"
          /\ result.cause = "template_parse" => env.template = "invalid"
          /\ result.cause = "css_read" => env.css_file = "unreadable"
    /\ (pc = "done" /\ result.kind # "err") =>
          /\ env.config = "ok"
          /\ env.template \in {"guarded", "unguarded"}
          /\ env.css_file # "unreadable"
    /\ ((\E q \in DOMAIN doc : FailedOutsideMetadata(q) \/ doc[q].stage = "failed-at-parse")
          \/ css_copy = "failed") => result.kind # "err"
    /\ (pc = "done" /\ result.kind # "err"
          /\ \A q \in DOMAIN doc : doc[q].stage # "aborted-at-parse") => result = Success

\* C6 witness: the run ended in success although the write of a page and the
\* copy of the stylesheet both failed.
C6_Witness ==
    /\ pc = "done"
    /\ result = Success
    /\ css_copy = "failed"
    /\ \E q \in DOMAIN doc : doc[q].stage = "failed-at-write"

\* C7 (as claimed): once the loop body has ended for a document, the file at
\* its output path holds the complete page or has not been written at all
\* (it is absent or still the earlier run's); it is never empty or truncated.
C7_AllOrNothing ==
    \A q \in DOMAIN doc :
        (Processed(q) /\ doc[q].stage # "failed-at-strip") =>
            LET f == FileAt(out, doc[q].output_path) IN
            \/ doc[q].context.built /\ f = RenderTemplate(doc[q].context)
            \/ f = InitialFile(doc[q].output_path)

\* C9: the copy of the stylesheet is attempted only when css_file is set and
\* only after the loop body has ended for every entry; a run that returns
\* success attempted it exactly when css_file is set; a failed copy leaves
\* the result success.
C9_StylesheetCopy ==
    /\ css_copy # "not_attempted" =>
          /\ env.css_file # "none"
          /\ \A q \in DOMAIN doc : Passed(q)
    /\ (pc = "done" /\ result = Success) =>
          (css_copy # "not_attempted" <=> env.css_file # "none")
    /\ css_copy = "failed" => (pc = "done" /\ result = Success)

\* C9 witness: the copy failed after one document was written and another
\* skipped, and the run returned success.
C9_Witness ==
    /\ css_copy = "failed"
    /\ result = Success
    /\ \E q \in DOMAIN doc : doc[q].stage = "written"
    /\ \E q \in DOMAIN doc : doc[q].stage = "failed-at-parse"

=============================================================================
